---- MODULE Spec2Model ----
(***************************************************************************)
(* Model of the ARK storage crates: the file-backed key-value storage      *)
(* (fs-storage/src/file_storage.rs) with the wall clock read by            *)
(* SystemTime::now() and the filesystem's clock that stamps the file's     *)
(* modification time; its pure functions needs_syncing, merge_from and     *)
(* remove on their own; the property store (fs-properties/src/lib.rs);     *)
(* the resource id computation (src/id.rs); and the legacy text storage    *)
(* (src/storage/file_storage.rs).                                          *)
(***************************************************************************)
EXTENDS Integers, Sequences, FiniteSets, TLC

\* ---------------------------------------------------------------- bounds
MaxTime == 2
MaxKey == 1
MaxValue == 0
MaxSharedKey == 1
MaxStamp == 3
MaxMergeKey == 3
MaxMergeValue == 1
MaxCopyKey == 2
MaxTwiceKey == 1
MaxTwiceValue == 2
MaxDocKey == 2
MaxDocLeaf == 2
MaxStoreCalls == 2
MaxCallers == 2
\* The fingerprint's 32-bit counter and its 512 KiB buffer, scaled down:
\* a u32 holds U32Bits bits, a u64 twice as many, and a buffer holds
\* BUFFER_CAPACITY bytes, fewer than a u32 can count.
U32Bits == 3
BUFFER_CAPACITY == 2
MaxTextLen == 2
MaxEntries == 2
\* the calls of the handler that are counted
MaxReadFiles == 2

Stores == {"A", "B"}
Keys == 1..MaxKey
Values == 0..MaxValue

\* ------------------------------------------------------------- constants
STORAGE_VERSION == 3
LEGACY_STORAGE_VERSION == 2

VARIABLES
  now,     \* the wall clock, read by SystemTime::now()
  fsnow,   \* the filesystem's clock, stamped on a file when it is written;
           \* it follows the wall clock and is never ahead of it
  file,    \* the backing file: [exists, content, mtime]; for the property
           \* store, the document file of one id: [exists, doc]; for the
           \* legacy store, its text file: [exists, lines, mtime]
  st,      \* st[s]: the fields of FileStorage instance s; for the property
           \* store, st[c]: the position of caller c and its document
  hist,    \* hist[s]: history of instance s relative to the other writers
  last,    \* the last storage operation and its outcome
  arg,     \* input of the function under check; for the property store,
           \* the documents passed to store_properties so far
  res      \* its output

vars == <<now, fsnow, file, st, hist, last, arg, res>>

\* ----------------------------------------------------------------- maps
\* BTreeMap<K, V>: a function whose domain is the set of present keys.
EmptyMap == [k \in {} |-> 0]

Maps == UNION {[S -> Values] : S \in SUBSET Keys}

Insert(m, k, v) == [x \in (DOMAIN m) \cup {k} |-> IF x = k THEN v ELSE m[x]]

Delete(m, k) == [x \in (DOMAIN m) \ {k} |-> m[x]]

\* ------------------------------------------------------- file contents
\* A file's text is its leading tokens (head) followed by its entries.
IntStr(i) == CASE i = 2 -> "2" [] i = 3 -> "3" [] i = 4 -> "4" [] OTHER -> "?"

StrInt(s) == CASE s = "2" -> 2 [] s = "3" -> 3 [] s = "4" -> 4 [] OTHER -> -1

StartsWith(text, prefix) ==
  /\ Len(text) >= Len(prefix)
  /\ \A i \in 1..Len(prefix) : text[i] = prefix[i]

\* serde_json::to_string_pretty(&self.data): the version field is whatever
\* the in-memory data carries.
Serialize(data) ==
  [head |-> <<"{", "\"version\"", ":", " ", IntStr(data.version)>>,
   entries |-> data.entries]

\* What the legacy writer emits as its first line: "version " + integer.
LegacyHeader == <<"version", " ", IntStr(LEGACY_STORAGE_VERSION)>>

\* What load_fs_data looks for.
Version2Prefix == <<"version", ":", " ", "2">>

NoFile == [exists |-> FALSE, content |-> [head |-> <<>>, entries |-> EmptyMap], mtime |-> 0]

\* -------------------------------------------------------------- monoid
\* V::combine of the Monoid contract, for the value types a store is used
\* with: the larger value, the local value, the other value, the sum, or
\* the mean rounded up.
CombineKinds == {"max", "first", "last", "add", "mean"}

Combine(kind, a, b) ==
  CASE kind = "max" -> IF a >= b THEN a ELSE b
    [] kind = "first" -> a
    [] kind = "last" -> b
    [] kind = "mean" -> (a + b + 1) \div 2
    [] OTHER -> (a + b) % (MaxMergeValue + 1)

\* The combine of the stores of the main specification.
StoreMonoid == "max"

\* ------------------------------------------------------ pure functions
\* needs_syncing: the match on the three comparisons, arms in source order.
NeedsSyncingSwapped(modified, written_to_disk, file_updated) ==
  LET mem_ahead == modified > written_to_disk
      disk_quiet == written_to_disk = file_updated
      disk_ahead == file_updated > written_to_disk
  IN IF disk_ahead THEN "UpSync"
     ELSE IF mem_ahead /\ disk_quiet THEN "DownSync"
     ELSE IF mem_ahead /\ ~disk_quiet THEN "FullSync"
     ELSE "NoSync"

NeedsSyncingWithoutFullSync(modified, written_to_disk, file_updated) ==
  LET mem_ahead == modified > written_to_disk
      disk_ahead == file_updated > written_to_disk
  IN IF mem_ahead THEN "DownSync"
     ELSE IF disk_ahead THEN "UpSync"
     ELSE "NoSync"

NeedsSyncing(modified, written_to_disk, file_updated) ==
  LET mem_ahead == modified > written_to_disk
      disk_quiet == written_to_disk = file_updated
      disk_ahead == file_updated > written_to_disk
  IN IF mem_ahead /\ disk_quiet THEN "DownSync"
     ELSE IF mem_ahead /\ ~disk_quiet THEN "FullSync"
     ELSE IF disk_ahead THEN "UpSync"
     ELSE "NoSync"

\* The legacy reader read_version_2_fs: the first line must be the version
\* header, every further line a key and a value.
ReadVersion2Fs(content) ==
  IF content.head = Version2Prefix
  THEN [err |-> "none", entries |-> content.entries]
  ELSE [err |-> "parse", entries |-> EmptyMap]

\* serde_json::from_reader into FileStorageData.
ParseJson(content) ==
  IF /\ Len(content.head) = 5
     /\ content.head[1] = "{"
     /\ content.head[2] = "\"version\""
     /\ StrInt(content.head[5]) # -1
  THEN [err |-> "none", version |-> StrInt(content.head[5]),
        entries |-> content.entries]
  ELSE [err |-> "parse", version |-> 0, entries |-> EmptyMap]

\* load_fs_data: [err, version, entries]
LoadFsDataAnyVersion(f) ==
  IF ~f.exists THEN [err |-> "not_found", version |-> 0, entries |-> EmptyMap]
  ELSE IF StartsWith(f.content.head, Version2Prefix)
  THEN LET r == ReadVersion2Fs(f.content)
       IN IF r.err = "none"
          THEN [err |-> "none", version |-> 2, entries |-> r.entries]
          ELSE [err |-> "v2_parse", version |-> 0, entries |-> EmptyMap]
  ELSE ParseJson(f.content)

LoadFsData(f) ==
  IF ~f.exists THEN [err |-> "not_found", version |-> 0, entries |-> EmptyMap]
  ELSE IF StartsWith(f.content.head, Version2Prefix)
  THEN LET r == ReadVersion2Fs(f.content)
       IN IF r.err = "none"
          THEN [err |-> "none", version |-> 2, entries |-> r.entries]
          ELSE [err |-> "v2_parse", version |-> 0, entries |-> EmptyMap]
  ELSE LET data == ParseJson(f.content)
       IN IF data.err # "none" THEN data
          ELSE IF data.version # STORAGE_VERSION
          THEN [err |-> "version_mismatch", version |-> 0, entries |-> EmptyMap]
          ELSE data

\* read_fs on the fields s of a storage: [store, err]
ReadFsStoreMerges(s, f) ==
  LET data == LoadFsData(f)
  IN IF data.err # "none" THEN [store |-> s, err |-> data.err]
     ELSE [store |-> [modified |-> f.mtime, written_to_disk |-> f.mtime,
                      version |-> data.version,
                      entries |->
                        [k \in DOMAIN s.entries \cup DOMAIN data.entries |->
                           IF k \in DOMAIN data.entries THEN data.entries[k]
                           ELSE s.entries[k]]],
           err |-> "none"]

ReadFsStore(s, f) ==
  LET data == LoadFsData(f)
  IN IF data.err # "none" THEN [store |-> s, err |-> data.err]
     ELSE [store |-> [modified |-> f.mtime, written_to_disk |-> f.mtime,
                      version |-> data.version, entries |-> data.entries],
           err |-> "none"]

\* FileStorage::new at clock value t
NewStoreSkipsLoad(f, t) ==
  [modified |-> t, written_to_disk |-> t,
   version |-> STORAGE_VERSION, entries |-> EmptyMap]

NewStore(f, t) ==
  LET storage == [modified |-> t, written_to_disk |-> t,
                  version |-> STORAGE_VERSION, entries |-> EmptyMap]
  IN IF f.exists THEN ReadFsStore(storage, f).store ELSE storage

\* set
SetStoreKeepsModified(s, key, value, t) ==
  [s EXCEPT !.entries = Insert(s.entries, key, value)]

SetStore(s, key, value, t) ==
  [s EXCEPT !.entries = Insert(s.entries, key, value), !.modified = t]

\* remove: [store, err]
RemoveStoreAlwaysTouches(s, id, t) ==
  IF id \notin DOMAIN s.entries
  THEN [store |-> [s EXCEPT !.modified = t], err |-> "key_not_found"]
  ELSE [store |-> [s EXCEPT !.entries = Delete(s.entries, id), !.modified = t],
        err |-> "none"]

RemoveStore(s, id, t) ==
  IF id \notin DOMAIN s.entries THEN [store |-> s, err |-> "key_not_found"]
  ELSE [store |-> [s EXCEPT !.entries = Delete(s.entries, id), !.modified = t],
        err |-> "none"]

\* write_fs: File::create truncates the file, which stamps it t0; the bytes
\* go into the BufWriter; the modification time is re-read (t0) and compared
\* with self.modified; the BufWriter writes its bytes out when it is dropped
\* at the end of the call, which stamps the file t1 >= t0, on both return
\* paths.
\* [store, file, err]
WriteFsStoreKeepsModified(s, f, t0, t1) ==
  LET new_timestamp == t0
      written == [exists |-> TRUE, content |-> Serialize(s), mtime |-> t1]
  IN IF new_timestamp = s.modified
     THEN [store |-> s, file |-> written, err |-> "timestamp"]
     ELSE [store |-> [s EXCEPT !.written_to_disk = new_timestamp],
           file |-> written, err |-> "none"]

WriteFsStore(s, f, t0, t1) ==
  LET new_timestamp == t0
      written == [exists |-> TRUE, content |-> Serialize(s), mtime |-> t1]
  IN IF new_timestamp = s.modified
     THEN [store |-> s, file |-> written, err |-> "timestamp"]
     ELSE [store |-> [s EXCEPT !.modified = new_timestamp,
                               !.written_to_disk = new_timestamp],
           file |-> written, err |-> "none"]

\* merge_from: the loop over the other map in key order; calls is the
\* sequence of combine calls <<key, existing_value, value>> it makes.
Least(S) == CHOOSE k \in S : \A j \in S : k <= j

RECURSIVE MergeLoop(_, _, _, _, _)
MergeLoop(entries, other, todo, kind, calls) ==
  IF todo = {} THEN [entries |-> entries, calls |-> calls]
  ELSE LET key == Least(todo)
           value == other[key]
       IN IF key \in DOMAIN entries
          THEN MergeLoop(Insert(entries, key, Combine(kind, entries[key], value)),
                         other, todo \ {key}, kind,
                         Append(calls, <<key, entries[key], value>>))
          ELSE MergeLoop(Insert(entries, key, value), other, todo \ {key},
                         kind, calls)

MergeFromOtherFirst(entries, other, kind) ==
  MergeLoop(other, entries, DOMAIN entries, kind, <<>>)

\* A merge that keeps the local value of a key both maps hold.
MergeFromKeepsLocal(entries, other, kind) ==
  MergeLoop(entries, other, DOMAIN other, "first", <<>>)

\* A merge that takes the local value of a key both maps hold out of the
\* map and never puts the combined value back.
MergeFromDropsShared(entries, other, kind) ==
  [entries |-> [k \in (DOMAIN entries \ DOMAIN other)
                        \cup (DOMAIN other \ DOMAIN entries) |->
                  IF k \in DOMAIN entries THEN entries[k] ELSE other[k]],
   calls |-> <<>>]

MergeFrom(entries, other, kind) ==
  MergeLoop(entries, other, DOMAIN other, kind, <<>>)

MergeFromStore(s, other, kind, t) ==
  [s EXCEPT !.entries = MergeFrom(s.entries, other, kind).entries,
            !.modified = t]

\* ------------------------------------------------------ property store
\* serde_json::Value as far as the store uses it: a leaf or an object of
\* further values.
DocKeys == 1..MaxDocKey

DocLeaves == 1..MaxDocLeaf

Leaf(v) == [leaf |-> TRUE, v |-> v, fields |-> EmptyMap]

Obj(fields) == [leaf |-> FALSE, v |-> 0, fields |-> fields]

\* Objects of leaves over any set of keys, and objects of one key holding
\* an object of one leaf.
FlatDocuments ==
  {Obj(f) : f \in UNION {[S -> {Leaf(v) : v \in DocLeaves}] : S \in SUBSET DocKeys}}

NestedDocuments ==
  {Obj(k :> Obj(j :> Leaf(v))) : k \in DocKeys, j \in DocKeys, v \in DocLeaves}

Documents == FlatDocuments \cup NestedDocuments

\* The structural merge: the keys of two objects are united, a key of both
\* is merged recursively, and in every other case the new value wins.
RECURSIVE Merge(_, _)
Merge(origin, new_data) ==
  IF ~origin.leaf /\ ~new_data.leaf
  THEN Obj([k \in DOMAIN origin.fields \cup DOMAIN new_data.fields |->
              IF k \notin DOMAIN new_data.fields THEN origin.fields[k]
              ELSE IF k \notin DOMAIN origin.fields THEN new_data.fields[k]
              ELSE Merge(origin.fields[k], new_data.fields[k])])
  ELSE new_data

\* Option<Value>: the committed content of the document file, if any.
NoDocument == [exists |-> FALSE, doc |-> Obj(EmptyMap)]

SomeDocument(doc) == [exists |-> TRUE, doc |-> doc]

\* The closure store_properties hands to modify_json.
StoreClosureReplaces(current_data, properties) == SomeDocument(properties)

StoreClosureKeepsCurrent(current_data, properties) ==
  IF current_data.exists THEN current_data ELSE SomeDocument(properties)

StoreClosure(current_data, properties) ==
  LET new_value == properties
  IN IF current_data.exists
     THEN SomeDocument(Merge(current_data.doc, new_value))
     ELSE SomeDocument(new_value)

\* modify_json: the current content is parsed, handed to the closure and
\* what the closure leaves is committed, in one indivisible step.
ModifyJson(f, properties) == StoreClosure(f, properties)

\* store_properties: the content of the document file after the call
StoreProperties(f, properties) == ModifyJson(f, properties)

\* load_raw_properties: [err, content]
LoadRawProperties(f) ==
  IF f.exists THEN [err |-> "none", content |-> f.doc]
  ELSE [err |-> "not_found", content |-> Obj(EmptyMap)]

\* --------------------------------------------------------- legacy store
\* storage/file_storage.rs: a text file of lines, the first the version
\* header, the others key, separator, value. A line is the sequence of its
\* characters; the header's words are single tokens.
KEY_VALUE_SEPARATOR == ":"

STORAGE_VERSION_PREFIX == <<"version", " ">>

LegacyChars == {"a", KEY_VALUE_SEPARATOR}

Texts == UNION {[1..n -> LegacyChars] : n \in 0..MaxTextLen}

\* HashMap<String, String> of at most MaxEntries entries
TextMaps ==
  UNION {[S -> Texts] : S \in {T \in SUBSET Texts : Cardinality(T) <= MaxEntries}}

\* The orders in which a HashMap may yield the keys S.
Orderings(S) ==
  {order \in [1..Cardinality(S) -> S] :
     \A i \in DOMAIN order, j \in DOMAIN order : i # j => order[i] # order[j]}

NoTextFile == [exists |-> FALSE, lines |-> <<>>, mtime |-> 0]

\* format!("{}{}{}\n", id, KEY_VALUE_SEPARATOR, value)
EntryLine(id, value) == id \o <<KEY_VALUE_SEPARATOR>> \o value

\* write_file on the instance s: the file is created (stamped t0) and the
\* lines go into the BufWriter; the modification time is re-read (t0) and
\* compared with self.timestamp; the BufWriter writes the lines out when it
\* is dropped at the end of the call (stamped t1).
\* [store, file, err]
WriteFile(s, value_by_id, order, t0, t1) ==
  LET new_timestamp == t0
      written == [exists |-> TRUE,
                  lines |-> <<LegacyHeader>> \o
                            [i \in DOMAIN order |->
                               EntryLine(order[i], value_by_id[order[i]])],
                  mtime |-> t1]
  IN IF new_timestamp = s.timestamp
     THEN [store |-> s, file |-> written, err |-> "timestamp"]
     ELSE [store |-> [s EXCEPT !.timestamp = new_timestamp],
           file |-> written, err |-> "none"]

\* verify_version: the outcome for a header line
VerifyVersion(header) ==
  IF ~StartsWith(header, STORAGE_VERSION_PREFIX) THEN "err"
  ELSE LET text == SubSeq(header, Len(STORAGE_VERSION_PREFIX) + 1, Len(header))
       IN IF Len(text) # 1 \/ StrInt(text[1]) = -1 THEN "panic_parse"
          ELSE IF StrInt(text[1]) = LEGACY_STORAGE_VERSION THEN "ok"
          ELSE "err"

\* line.split(KEY_VALUE_SEPARATOR).collect(): the parts between all the
\* separators of the line
RECURSIVE Split(_)
Split(line) ==
  IF \A i \in 1..Len(line) : line[i] # KEY_VALUE_SEPARATOR THEN <<line>>
  ELSE LET at == CHOOSE i \in 1..Len(line) :
                   /\ line[i] = KEY_VALUE_SEPARATOR
                   /\ \A j \in 1..(i - 1) : line[j] # KEY_VALUE_SEPARATOR
       IN <<SubSeq(line, 1, at - 1)>> \o Split(SubSeq(line, at + 1, Len(line)))

\* The loop of read_file_from_disk over the lines after the header.
RECURSIVE ReadLines(_, _, _)
ReadLines(lines, i, value_by_id) ==
  IF i > Len(lines) THEN [pc |-> "ok", out |-> value_by_id]
  ELSE IF lines[i] = <<>> THEN ReadLines(lines, i + 1, value_by_id)
  ELSE LET parts == Split(lines[i])
       IN IF Len(parts) < 2 THEN [pc |-> "panic_index", out |-> EmptyMap]
          ELSE ReadLines(lines, i + 1, Insert(value_by_id, parts[1], parts[2]))

\* read_file_from_disk: [pc, out], pc the way the call ends
ReadFileFromDisk(f) ==
  IF ~f.exists THEN [pc |-> "err", out |-> EmptyMap]
  ELSE IF f.lines = <<>> THEN [pc |-> "err", out |-> EmptyMap]
  ELSE IF VerifyVersion(f.lines[1]) # "ok"
  THEN [pc |-> VerifyVersion(f.lines[1]), out |-> EmptyMap]
  ELSE ReadLines(f.lines, 2, EmptyMap)

\* read_file on the fields s of an instance, which it only reads:
\* [pc, handled], handled when the handler was called on the map read
ReadFile(s, f) ==
  IF ~f.exists THEN [pc |-> "err", handled |-> FALSE]
  ELSE LET new_timestamp == f.mtime
       IN IF s.timestamp >= new_timestamp
          THEN [pc |-> "ok", handled |-> FALSE]
          ELSE LET r == ReadFileFromDisk(f)
               IN IF r.pc # "ok" THEN [pc |-> r.pc, handled |-> FALSE]
                  ELSE [pc |-> "ok", handled |-> r.out # EmptyMap]

\* drop: the file at the instance's path after fs::remove_file
DropStoreKeepsOthers(s, f) == IF s.timestamp = f.mtime THEN NoTextFile ELSE f

DropStore(s, f) == NoTextFile

\* --------------------------------------------------------- fingerprint
U32Max == 2^U32Bits - 1

U64Max == 2^(2 * U32Bits) - 1

\* The byte at offset i of a content, which is given by its length and the
\* byte it starts with.
ByteAt(content, i) == (content.first + i) % 2

\* crc32fast::Hasher: new, update with the bytes from offset from up to
\* offset to, finalize.
HasherNew == 0

RECURSIVE HasherUpdate(_, _, _, _)
HasherUpdate(hasher, content, from, to) ==
  IF from >= to THEN hasher
  ELSE HasherUpdate((3 * hasher + ByteAt(content, from) + 1) % (U32Max + 1),
                    content, from + 1, to)

HasherFinalize(hasher) == hasher

\* compute_reader at the top of its loop, for the locals f of the call and
\* a fill_buf that yields n bytes (none at the end of the source) or fails:
\* the next locals. The addition to the u32 counter aborts a build with
\* overflow checks and wraps in a build without.
ComputeReaderLoop(f, input, n, read_fails) ==
  IF read_fails THEN [f EXCEPT !.pc = "panic_read"]
  ELSE IF n = 0 THEN [f EXCEPT !.pc = "finish"]
  ELSE IF f.bytes_read + n > U32Max /\ input.overflow_checks
  THEN [f EXCEPT !.hasher = HasherUpdate(f.hasher, input.content, f.pos, f.pos + n),
                 !.pos = f.pos + n,
                 !.pc = "panic_overflow"]
  ELSE [f EXCEPT !.hasher = HasherUpdate(f.hasher, input.content, f.pos, f.pos + n),
                 !.pos = f.pos + n,
                 !.bytes_read = (f.bytes_read + n) % (U32Max + 1)]

\* compute_reader after its loop: finalize, the conversion of data_size to
\* u32 and its unwrap, the assertion, the result.
ComputeReaderFinish(f, input) ==
  IF input.data_size > U32Max THEN [f EXCEPT !.pc = "panic_convert"]
  ELSE IF f.bytes_read # input.data_size THEN [f EXCEPT !.pc = "panic_assert"]
  ELSE [f EXCEPT !.pc = "ok",
                 !.out = [data_size |-> input.data_size,
                          crc32 |-> HasherFinalize(f.hasher)]]

\* ------------------------------------------------------------- the state
SampleMap == Insert(EmptyMap, 1, 0)

\* The files a store can find at its path: none, one written by this
\* version, one of another structured version, one written by the legacy
\* writer, and one in the shape load_fs_data treats as version 2.
InitFiles ==
  {NoFile}
  \cup {[exists |-> TRUE, mtime |-> 0, content |-> c] :
          c \in {Serialize([version |-> STORAGE_VERSION, entries |-> SampleMap]),
                 Serialize([version |-> STORAGE_VERSION + 1, entries |-> SampleMap]),
                 [head |-> LegacyHeader, entries |-> SampleMap],
                 [head |-> Version2Prefix, entries |-> SampleMap]}}

BlankStore ==
  [modified |-> 0, written_to_disk |-> 0, version |-> STORAGE_VERSION,
   entries |-> EmptyMap]

\* flushed_from says where the instance's written_to_disk was read from:
\* the wall clock ("clock") or the file's modification time ("fs").
NoHist ==
  [made |-> FALSE, sync |-> "never", dirty |-> FALSE, flushed_from |-> "none"]

\* An instance made on a path with no file to load, and mutated since.
MadeHist == [NoHist EXCEPT !.made = TRUE, !.flushed_from = "clock"]

NoArg == <<>>

NoRes == [done |-> FALSE]

\* status: needs_syncing of instance s against the file as it is now
Status(s) ==
  IF ~file.exists THEN "Err"
  ELSE NeedsSyncing(st[s].modified, st[s].written_to_disk, file.mtime)

Did(op, s, r, p) == [op |-> op, who |-> s, res |-> r, pre |-> p]

Init ==
  /\ now = 0
  /\ fsnow = 0
  /\ file \in InitFiles
  /\ st = [s \in Stores |-> BlankStore]
  /\ hist = [s \in Stores |-> NoHist]
  /\ last = Did("init", "-", "none", "-")
  /\ arg = NoArg
  /\ res = NoRes

\* --------------------------------------------------------------- actions
\* Each handler is a step on the storage, the file and the clock; the
\* second argument of Done is what the call returned.
Done(op, s, r) == last' = Did(op, s, r, Status(s))

Unlogged == UNCHANGED last

Tick ==
  /\ now < MaxTime
  /\ now' = now + 1
  /\ UNCHANGED <<fsnow, file, st, hist, last, arg, res>>

\* The filesystem's clock catches up with the wall clock.
FsTick ==
  /\ fsnow < now
  /\ fsnow' = now
  /\ UNCHANGED <<now, file, st, hist, last, arg, res>>

NewStep(s) ==
  /\ st' = [st EXCEPT ![s] = NewStore(file, now)]
  /\ hist' = [hist EXCEPT ![s] =
                [made |-> TRUE,
                 sync |-> IF LoadFsData(file).err = "none" THEN "current"
                          ELSE "never",
                 dirty |-> FALSE,
                 flushed_from |-> IF LoadFsData(file).err = "none" THEN "fs"
                                  ELSE "clock"]]
  /\ UNCHANGED <<now, fsnow, file, arg, res>>

SetStep(s, key, value) ==
  /\ hist[s].made
  /\ st' = [st EXCEPT ![s] = SetStore(st[s], key, value, now)]
  /\ hist' = [hist EXCEPT ![s].dirty = TRUE]
  /\ UNCHANGED <<now, fsnow, file, arg, res>>

RemoveStep(s, id) ==
  /\ hist[s].made
  /\ st' = [st EXCEPT ![s] = RemoveStore(st[s], id, now).store]
  /\ hist' = [hist EXCEPT ![s].dirty =
                (RemoveStore(st[s], id, now).err = "none") \/ @]
  /\ UNCHANGED <<now, fsnow, file, arg, res>>

MergeFromStep(s, other) ==
  /\ hist[s].made
  /\ st' = [st EXCEPT ![s] = MergeFromStore(st[s], other, StoreMonoid, now)]
  /\ hist' = [hist EXCEPT ![s].dirty = TRUE]
  /\ UNCHANGED <<now, fsnow, file, arg, res>>

ReadFsStep(s) ==
  /\ hist[s].made
  /\ st' = [st EXCEPT ![s] = ReadFsStore(st[s], file).store]
  /\ hist' = IF ReadFsStore(st[s], file).err = "none"
             THEN [hist EXCEPT ![s].sync = "current", ![s].dirty = FALSE,
                               ![s].flushed_from = "fs"]
             ELSE hist
  /\ UNCHANGED <<now, fsnow, file, arg, res>>

\* The other instances that have loaded or flushed fall behind a successful
\* flush of s: "behind_later" when the file's time is newer than their
\* written_to_disk, "behind_same" when it is not.
FallBehind(h, s, mtime) ==
  [o \in Stores |->
     IF o = s THEN [h[o] EXCEPT !.sync = "current", !.dirty = FALSE,
                                !.flushed_from = "fs"]
     ELSE IF h[o].sync = "never" THEN h[o]
     ELSE [h[o] EXCEPT !.sync = IF mtime > st[o].written_to_disk
                                THEN "behind_later" ELSE "behind_same"]]

\* The file is stamped from the filesystem's clock; late says that this
\* clock catches up with the wall clock between the re-read of the file's
\* modification time and the BufWriter's write at the end of the call.
WriteFsStep(s, late) ==
  /\ hist[s].made
  /\ late => fsnow < now
  /\ LET r == WriteFsStore(st[s], file, fsnow, IF late THEN now ELSE fsnow)
     IN /\ st' = [st EXCEPT ![s] = r.store]
        /\ file' = r.file
        /\ hist' = IF r.err = "none" THEN FallBehind(hist, s, r.file.mtime)
                   ELSE hist
  /\ fsnow' = IF late THEN now ELSE fsnow
  /\ UNCHANGED <<now, arg, res>>

EraseStep(s) ==
  /\ hist[s].made
  /\ file' = NoFile
  /\ UNCHANGED <<now, fsnow, st, hist, arg, res>>

New(s) == NewStep(s) /\ last' = Did("new", s, LoadFsData(file).err, "-")

Set(s, key, value) == SetStep(s, key, value) /\ Done("set", s, "none")

Remove(s, id) ==
  RemoveStep(s, id) /\ Done("remove", s, RemoveStore(st[s], id, now).err)

MergeFromAct(s, other) ==
  MergeFromStep(s, other) /\ Done("merge_from", s, "none")

ReadFs(s) == ReadFsStep(s) /\ Done("read_fs", s, ReadFsStore(st[s], file).err)

WriteFs(s) ==
  \E late \in BOOLEAN :
    /\ WriteFsStep(s, late)
    /\ Done("write_fs", s, WriteFsStore(st[s], file, fsnow, fsnow).err)

Erase(s) ==
  EraseStep(s) /\ Done("erase", s, IF file.exists THEN "none" ELSE "io")

\* One storage instance, dropped and opened afresh at will, merging from
\* any map.
Next ==
  \/ Tick
  \/ FsTick
  \/ New("A")
  \/ \E key \in Keys, value \in Values : Set("A", key, value)
  \/ \E id \in Keys : Remove("A", id)
  \/ \E other \in Maps : MergeFromAct("A", other)
  \/ ReadFs("A")
  \/ WriteFs("A")
  \/ Erase("A")

Spec == Init /\ [][Next]_vars

\* Two storage instances on the same backing file, merging from each
\* other; the operations' outcomes are not recorded.
SharedKeys == 1..MaxSharedKey

NextShared ==
  \/ Tick
  \/ FsTick
  \/ \E s \in Stores : NewStep(s) /\ Unlogged
  \/ \E s \in Stores, key \in SharedKeys, value \in Values :
       SetStep(s, key, value) /\ Unlogged
  \/ \E s \in Stores, id \in SharedKeys : RemoveStep(s, id) /\ Unlogged
  \/ \E s \in Stores, o \in Stores :
       s # o /\ hist[o].made /\ MergeFromStep(s, st[o].entries) /\ Unlogged
  \/ \E s \in Stores : ReadFsStep(s) /\ Unlogged
  \/ \E s \in Stores, late \in BOOLEAN : WriteFsStep(s, late) /\ Unlogged
  \/ \E s \in Stores : EraseStep(s) /\ Unlogged

SpecShared == Init /\ [][NextShared]_vars

\* ------------------------------------------- needs_syncing on its own
Stamps == 0..MaxStamp

InitSync ==
  /\ now = 0
  /\ fsnow = 0
  /\ file = NoFile
  /\ st = [s \in Stores |-> BlankStore]
  /\ hist = [s \in Stores |-> NoHist]
  /\ last = Did("init", "-", "none", "-")
  /\ arg \in [modified : Stamps, written_to_disk : Stamps, file_updated : Stamps]
  /\ res = NoRes

ApplyNeedsSyncing ==
  /\ ~res.done
  /\ res' = [done |-> TRUE,
             out |-> NeedsSyncing(arg.modified, arg.written_to_disk,
                                  arg.file_updated)]
  /\ UNCHANGED <<now, fsnow, file, st, hist, last, arg>>

SpecSync == InitSync /\ [][ApplyNeedsSyncing]_vars

\* ---------------------------------------------- merge_from on its own
MergeKeys == 1..MaxMergeKey

MergeValues == 0..MaxMergeValue

MergeMaps == UNION {[S -> MergeValues] : S \in SUBSET MergeKeys}

InitMerge ==
  /\ now = 0
  /\ fsnow = 0
  /\ file = NoFile
  /\ st = [s \in Stores |-> BlankStore]
  /\ hist = [s \in Stores |-> NoHist]
  /\ last = Did("init", "-", "none", "-")
  /\ arg \in [entries : MergeMaps, other : MergeMaps, kind : CombineKinds]
  /\ res = NoRes

ApplyMergeFrom ==
  /\ ~res.done
  /\ res' = [done |-> TRUE,
             out |-> MergeFrom(arg.entries, arg.other, arg.kind)]
  /\ UNCHANGED <<now, fsnow, file, st, hist, last, arg>>

SpecMerge == InitMerge /\ [][ApplyMergeFrom]_vars

\* ------------------------- two copies of one store merging both ways
CopyKeys == 1..MaxCopyKey

CopyMaps == UNION {[S -> MergeValues] : S \in SUBSET CopyKeys}

StoreOf(entries) == [BlankStore EXCEPT !.entries = entries]

\* Both instances start as copies of the same initial map.
InitCopies ==
  /\ now = 0
  /\ fsnow = 0
  /\ file = NoFile
  /\ \E initial \in CopyMaps : st = [s \in Stores |-> StoreOf(initial)]
  /\ hist = [s \in Stores |-> MadeHist]
  /\ last = Did("init", "-", "none", "-")
  /\ arg \in [kind : CombineKinds]
  /\ res = NoRes

CopySet(s, key, value) == ~res.done /\ SetStep(s, key, value) /\ Unlogged

CopyRemove(s, id) == ~res.done /\ RemoveStep(s, id) /\ Unlogged

\* A.merge_from(B) and B.merge_from(A), each on the maps as they are
\* before either merge; res keeps those maps.
MergeBothWays ==
  /\ ~res.done
  /\ st' = [A |-> MergeFromStore(st["A"], st["B"].entries, arg.kind, now),
            B |-> MergeFromStore(st["B"], st["A"].entries, arg.kind, now)]
  /\ res' = [done |-> TRUE, a |-> st["A"].entries, b |-> st["B"].entries]
  /\ UNCHANGED <<now, fsnow, file, hist, last, arg>>

NextCopies ==
  \/ \E s \in Stores, key \in CopyKeys, value \in MergeValues :
       CopySet(s, key, value)
  \/ \E s \in Stores, id \in CopyKeys : CopyRemove(s, id)
  \/ MergeBothWays

SpecCopies == InitCopies /\ [][NextCopies]_vars

\* ---------------------------------------------------- remove on its own
\* A store holding any map over CopyKeys, at any clock value, with any
\* timestamps a store can hold then: modified not before written_to_disk,
\* neither after the clock; the backing file exists.
InitRemove ==
  /\ now \in 0..MaxTime
  /\ fsnow = now
  /\ \E mtime \in 0..now :
       file = [exists |-> TRUE, mtime |-> mtime,
               content |-> Serialize([version |-> STORAGE_VERSION,
                                      entries |-> EmptyMap])]
  /\ \E entries \in CopyMaps, modified \in 0..now :
       \E written_to_disk \in 0..modified :
         st = [s \in Stores |->
                 IF s = "A"
                 THEN [StoreOf(entries) EXCEPT
                         !.modified = modified,
                         !.written_to_disk = written_to_disk]
                 ELSE BlankStore]
  /\ hist = [s \in Stores |-> IF s = "A" THEN MadeHist ELSE NoHist]
  /\ last = Did("init", "-", "none", "-")
  /\ arg = NoArg
  /\ res = NoRes

ApplyRemove == \E id \in CopyKeys : Remove("A", id)

SpecRemove == InitRemove /\ [][ApplyRemove]_vars

\* --------------------------------------------------- read_fs on its own
\* A store holding any map over CopyKeys with any timestamps it can hold,
\* at a path with no file or with a file of the current or the legacy
\* version holding any map over CopyKeys; arg keeps the map the store held
\* before the first load.
InitLoad ==
  /\ now = MaxTime
  /\ fsnow = now
  /\ \/ file = NoFile
     \/ \E mtime \in 0..now, entries \in CopyMaps :
          \E content \in {Serialize([version |-> STORAGE_VERSION,
                                      entries |-> entries]),
                           [head |-> Version2Prefix, entries |-> entries]} :
            file = [exists |-> TRUE, mtime |-> mtime, content |-> content]
  /\ \E entries \in CopyMaps, modified \in 0..now :
       \E written_to_disk \in 0..modified :
         /\ st = [s \in Stores |->
                    IF s = "A"
                    THEN [StoreOf(entries) EXCEPT
                            !.modified = modified,
                            !.written_to_disk = written_to_disk]
                    ELSE BlankStore]
         /\ arg = [local |-> entries]
  /\ hist = [s \in Stores |-> IF s = "A" THEN MadeHist ELSE NoHist]
  /\ last = Did("init", "-", "none", "-")
  /\ res = NoRes

ApplyReadFs == ReadFs("A")

SpecLoad == InitLoad /\ [][ApplyReadFs]_vars

\* -------------------------------- merge_from of the same input, twice
TwiceKeys == 1..MaxTwiceKey

TwiceValues == 0..MaxTwiceValue

TwiceMaps == UNION {[S -> TwiceValues] : S \in SUBSET TwiceKeys}

InitTwice ==
  /\ now = 0
  /\ fsnow = 0
  /\ file = NoFile
  /\ arg \in [other : TwiceMaps, kind : CombineKinds]
  /\ \E entries \in TwiceMaps :
       st = [s \in Stores |-> IF s = "A" THEN StoreOf(entries) ELSE BlankStore]
  /\ hist = [s \in Stores |-> IF s = "A" THEN MadeHist ELSE NoHist]
  /\ last = Did("init", "-", "none", "-")
  /\ res = [done |-> FALSE, times |-> 0, before |-> EmptyMap]

\* One more merge_from of the same input; res counts the merges and keeps
\* the map as it was before this one.
MergeAgain ==
  /\ res.times < 2
  /\ st' = [st EXCEPT !["A"] =
             MergeFromStore(st["A"], arg.other, arg.kind, now)]
  /\ res' = [done |-> TRUE,
             times |-> res.times + 1,
             before |-> st["A"].entries]
  /\ UNCHANGED <<now, fsnow, file, hist, last, arg>>

SpecTwice == InitTwice /\ [][MergeAgain]_vars

\* ------------------------------- store calls for one id, one at a time
InitProperties ==
  /\ now = 0
  /\ fsnow = 0
  /\ file = NoDocument
  /\ st = [s \in Stores |-> BlankStore]
  /\ hist = [s \in Stores |-> NoHist]
  /\ last = Did("init", "-", "none", "-")
  /\ arg = <<>>
  /\ res = NoRes

StorePropertiesStep(properties) ==
  /\ ~res.done
  /\ Len(arg) < MaxStoreCalls
  /\ file' = StoreProperties(file, properties)
  /\ arg' = Append(arg, properties)
  /\ UNCHANGED <<now, fsnow, st, hist, last, res>>

LoadRawPropertiesStep ==
  /\ ~res.done
  /\ res' = [done |-> TRUE, out |-> LoadRawProperties(file)]
  /\ UNCHANGED <<now, fsnow, file, st, hist, last, arg>>

NextProperties ==
  \/ \E properties \in Documents : StorePropertiesStep(properties)
  \/ LoadRawPropertiesStep

SpecProperties == InitProperties /\ [][NextProperties]_vars

\* ---------------------------- store calls for one id, running together
\* st[c] is the position of caller c in store_properties and the document
\* it was called with: an object of one key.
Callers == 1..MaxCallers

CallerDocuments == {Obj(k :> Leaf(v)) : k \in DocKeys, v \in DocLeaves}

InitCallers ==
  /\ now = 0
  /\ fsnow = 0
  /\ file = NoDocument
  /\ \E properties \in [Callers -> CallerDocuments] :
       st = [c \in Callers |-> [pc |-> "new", properties |-> properties[c]]]
  /\ hist = [s \in Stores |-> NoHist]
  /\ last = Did("init", "-", "none", "-")
  /\ arg = NoArg
  /\ res = NoRes

\* AtomicFile::new on the path of the id
AtomicFileNew(c) ==
  /\ st[c].pc = "new"
  /\ st' = [st EXCEPT ![c].pc = "modify"]
  /\ UNCHANGED <<now, fsnow, file, hist, last, arg, res>>

\* modify_json with the closure, then the return
ModifyJsonStep(c) ==
  /\ st[c].pc = "modify"
  /\ file' = StoreProperties(file, st[c].properties)
  /\ st' = [st EXCEPT ![c].pc = "done"]
  /\ UNCHANGED <<now, fsnow, hist, last, arg, res>>

NextCallers ==
  \/ \E c \in Callers : AtomicFileNew(c)
  \/ \E c \in Callers : ModifyJsonStep(c)

SpecCallers == InitCallers /\ [][NextCallers]_vars

\* ------------------------------------------- compute_reader on its own
\* The inputs: a content of any length up to one more than a u32 holds,
\* the length the caller declares, the offset at which the source fails to
\* read if it does (-1 if not), and whether the build checks overflow.
ContentLengths == 0..(U32Max + 2)

NoId == [data_size |-> 0, crc32 |-> 0]

InitComputeReader ==
  /\ now = 0
  /\ fsnow = 0
  /\ file = NoFile
  /\ st = [s \in Stores |-> BlankStore]
  /\ hist = [s \in Stores |-> NoHist]
  /\ last = Did("init", "-", "none", "-")
  /\ \E len \in ContentLengths, first \in {0, 1}, data_size \in ContentLengths,
        fails_at \in {-1} \cup ContentLengths, overflow_checks \in BOOLEAN :
       /\ fails_at <= len
       /\ arg = [content |-> [len |-> len, first |-> first],
                 data_size |-> data_size,
                 fails_at |-> fails_at,
                 overflow_checks |-> overflow_checks]
  /\ res = [done |-> FALSE, pc |-> "loop", pos |-> 0, bytes_read |-> 0,
            hasher |-> HasherNew, out |-> NoId]

\* One pass of the loop: fill_buf yields what is left of the source, a
\* buffer's worth at most and possibly less.
ComputeReaderLoopStep ==
  /\ res.pc = "loop"
  /\ \E n \in 0..BUFFER_CAPACITY :
       /\ n <= arg.content.len - res.pos
       /\ (n = 0) <=> (arg.content.len = res.pos)
       /\ LET f == ComputeReaderLoop(res, arg, n, arg.fails_at = res.pos)
          IN res' = [f EXCEPT !.done = (f.pc # "loop" /\ f.pc # "finish")]
  /\ UNCHANGED <<now, fsnow, file, st, hist, last, arg>>

ComputeReaderFinishStep ==
  /\ res.pc = "finish"
  /\ res' = [ComputeReaderFinish(res, arg) EXCEPT !.done = TRUE]
  /\ UNCHANGED <<now, fsnow, file, st, hist, last, arg>>

NextComputeReader == ComputeReaderLoopStep \/ ComputeReaderFinishStep

SpecComputeReader == InitComputeReader /\ [][NextComputeReader]_vars

\* ------------------------------- the legacy store's write and read back
LegacyStore(alive, timestamp) == [alive |-> alive, timestamp |-> timestamp]

\* The files read_file_from_disk tells apart: none, an empty one, and a
\* header of each kind followed by a line of each kind.
InitTextFiles ==
  {NoTextFile, [exists |-> TRUE, lines |-> <<>>, mtime |-> 0]}
  \cup {[exists |-> TRUE, lines |-> <<header, line>>, mtime |-> 0] :
          header \in {LegacyHeader, <<"version", " ", "3">>,
                      <<"version", " ", "x">>, <<"version", " ">>,
                      <<"a">>},
          line \in {<<>>, <<"a">>, <<"a", KEY_VALUE_SEPARATOR, "a">>}}

\* One instance, made when the wall clock read 1, on a file system whose
\* clock reads 0 or 1.
InitText ==
  /\ now = 1
  /\ fsnow \in {0, 1}
  /\ file \in InitTextFiles
  /\ st = [s \in Stores |-> LegacyStore(s = "A", IF s = "A" THEN now ELSE 0)]
  /\ hist = [s \in Stores |-> NoHist]
  /\ last = Did("init", "-", "none", "-")
  /\ arg = [written |-> FALSE, value_by_id |-> EmptyMap]
  /\ res = [done |-> FALSE, pc |-> "start", out |-> EmptyMap]

WriteFileText ==
  /\ res.pc = "start"
  /\ ~arg.written
  /\ \E value_by_id \in TextMaps :
       \E order \in Orderings(DOMAIN value_by_id) :
         LET r == WriteFile(st["A"], value_by_id, order, fsnow, fsnow)
         IN /\ file' = r.file
            /\ st' = [st EXCEPT !["A"] = r.store]
            /\ arg' = [written |-> TRUE, value_by_id |-> value_by_id]
            /\ last' = Did("write_file", "A", r.err, "-")
  /\ UNCHANGED <<now, fsnow, hist, res>>

ReadFileFromDiskText ==
  /\ res.pc = "start"
  /\ LET r == ReadFileFromDisk(file)
     IN res' = [done |-> TRUE, pc |-> r.pc, out |-> r.out]
  /\ UNCHANGED <<now, fsnow, file, st, hist, last, arg>>

NextText == WriteFileText \/ ReadFileFromDiskText

SpecText == InitText /\ [][NextText]_vars

\* ------------------------------------ the operations that can fail
\* The legacy store's read and the fingerprint computation, each on the
\* inputs above.
InitFallible == InitText \/ InitComputeReader

NextFallible ==
  \/ WriteFileText
  \/ ReadFileFromDiskText
  \/ ComputeReaderLoopStep
  \/ ComputeReaderFinishStep

SpecFallible == InitFallible /\ [][NextFallible]_vars

\* ---------------------------- legacy instances on one path, and drop
TextSampleMaps == {EmptyMap, <<"a">> :> <<"a">>}

InitLegacy ==
  /\ now = 0
  /\ fsnow = 0
  /\ file \in {NoTextFile,
                [exists |-> TRUE, mtime |-> 0,
                 lines |-> <<LegacyHeader, <<"a", KEY_VALUE_SEPARATOR, "a">>>>]}
  /\ st = [s \in Stores |-> LegacyStore(FALSE, 0)]
  /\ hist = [s \in Stores |-> NoHist]
  /\ last = Did("init", "-", "none", "-")
  /\ arg = NoArg
  /\ res = [done |-> FALSE, times |-> 0]

FileThere == IF file.exists THEN "file" ELSE "no_file"

\* FileStorage::new of the legacy store
LegacyNew(s) ==
  /\ ~st[s].alive
  /\ st' = [st EXCEPT ![s] = LegacyStore(TRUE, now)]
  /\ last' = Did("new", s, "none", FileThere)
  /\ UNCHANGED <<now, fsnow, file, hist, arg, res>>

LegacyWriteFile(s, late) ==
  /\ st[s].alive
  /\ late => fsnow < now
  /\ \E value_by_id \in TextSampleMaps :
       \E order \in Orderings(DOMAIN value_by_id) :
         LET r == WriteFile(st[s], value_by_id, order, fsnow,
                            IF late THEN now ELSE fsnow)
         IN /\ file' = r.file
            /\ st' = [st EXCEPT ![s] = r.store]
            /\ last' = Did("write_file", s, r.err, FileThere)
  /\ fsnow' = IF late THEN now ELSE fsnow
  /\ UNCHANGED <<now, hist, arg, res>>

LegacyReadFileFromDisk(s) ==
  /\ st[s].alive
  /\ last' = Did("read_file_from_disk", s, ReadFileFromDisk(file).pc, FileThere)
  /\ UNCHANGED <<now, fsnow, file, st, hist, arg, res>>

\* read_file with a handler; res.times counts the calls of the handler by
\* read_file calls of one instance that follow each other with no other
\* operation on the path in between.
LegacyReadFile(s) ==
  /\ st[s].alive
  /\ res.times < MaxReadFiles
  /\ LET r == ReadFile(st[s], file)
         again == last.op = "read_file" /\ last.who = s /\ last.res = "handled"
     IN /\ last' = Did("read_file", s,
                       IF r.handled THEN "handled" ELSE r.pc, FileThere)
        /\ res' = [done |-> TRUE,
                   times |-> IF ~r.handled THEN 0
                             ELSE IF again THEN res.times + 1 ELSE 1]
  /\ UNCHANGED <<now, fsnow, file, st, hist, arg>>

\* The instance goes out of scope.
LegacyDrop(s) ==
  /\ st[s].alive
  /\ file' = DropStore(st[s], file)
  /\ st' = [st EXCEPT ![s] = LegacyStore(FALSE, 0)]
  /\ last' = Did("drop", s, IF file.exists THEN "none" ELSE "io", FileThere)
  /\ UNCHANGED <<now, fsnow, hist, arg, res>>

NextLegacy ==
  \/ Tick
  \/ FsTick
  \/ \E s \in Stores : LegacyNew(s)
  \/ \E s \in Stores, late \in BOOLEAN : LegacyWriteFile(s, late)
  \/ \E s \in Stores : LegacyReadFileFromDisk(s)
  \/ \E s \in Stores : LegacyReadFile(s)
  \/ \E s \in Stores : LegacyDrop(s)

SpecLegacy == InitLegacy /\ [][NextLegacy]_vars

\* ================================================================ claims
MemAhead(s) == st[s].modified > st[s].written_to_disk

IsFlush(l) == l.op = "write_fs" /\ l.res = "none"

IsLoad(l) == l.op = "read_fs" /\ l.res = "none"

\* A structured (non-legacy) file of another format version.
OtherVersionFile(f) ==
  /\ f.exists
  /\ ~StartsWith(f.content.head, Version2Prefix)
  /\ ParseJson(f.content).err = "none"
  /\ ParseJson(f.content).version # STORAGE_VERSION

\* C1: needs_syncing is a function of (modified, flushed, file mtime) alone:
\* DownSync iff modified > flushed and flushed = mtime; FullSync iff
\* modified > flushed and flushed # mtime, the mtime newer or older; UpSync
\* iff modified <= flushed and mtime > flushed; NoSync in every other case.
C1_StatusOfTimestamps ==
  res.done =>
    LET m == arg.modified
        f == arg.written_to_disk
        t == arg.file_updated
    IN /\ (res.out = "DownSync") <=> (m > f /\ f = t)
       /\ (res.out = "FullSync") <=> (m > f /\ f # t)
       /\ (res.out = "UpSync") <=> (m <= f /\ t > f)
       /\ (res.out = "NoSync") <=> (m <= f /\ t <= f)

C1_Witness ==
  /\ res.done
  /\ res.out = "FullSync"
  /\ arg.file_updated < arg.written_to_disk

\* C2 as stated: once another instance has successfully flushed after B's
\* last successful load or flush, B's status is UpSync when B has no
\* unflushed mutation and FullSync when it has one (never NoSync, never
\* DownSync) until B itself loads or flushes.
C2_Original ==
  \A b \in Stores :
    (hist[b].sync \in {"behind_same", "behind_later"} /\ file.exists) =>
      Status(b) = IF hist[b].dirty THEN "FullSync" ELSE "UpSync"

\* C2 amended: once another instance has successfully flushed after B's
\* last successful load or flush and left the file with a modification time
\* newer than B's written_to_disk, then, while the file exists and until B
\* itself loads or flushes, B's status is FullSync when B's modified is
\* newer than its written_to_disk and UpSync otherwise.
C2_BehindIsReported ==
  \A b \in Stores :
    (hist[b].sync = "behind_later" /\ file.exists) =>
      Status(b) = IF MemAhead(b) THEN "FullSync" ELSE "UpSync"

C2_Witness ==
  \E b \in Stores :
    /\ hist[b].sync = "behind_later"
    /\ hist[b].dirty
    /\ file.exists
    /\ Status(b) = "FullSync"

\* C3 as stated: from any state whose status is NoSync, a single set makes
\* the status DownSync.
C3_Original ==
  (last.op = "set" /\ last.pre = "NoSync") => Status(last.who) = "DownSync"

\* C3 amended: from a state whose status is NoSync, whose written_to_disk
\* equals the file's modification time and whose clock has advanced past
\* written_to_disk, a single set makes the status DownSync.
C3_SetMovesToDownSync ==
  [][\A key \in Keys, value \in Values :
       (/\ Set("A", key, value)
        /\ Status("A") = "NoSync"
        /\ st["A"].written_to_disk = file.mtime
        /\ now > st["A"].written_to_disk)
       => Status("A")' = "DownSync"]_vars

C3_Witness ==
  /\ last.op = "set"
  /\ last.pre = "NoSync"
  /\ Status(last.who) = "DownSync"

\* C4: right after a successful flush or a successful load, nothing else
\* having touched the store or the file, status is NoSync: written_to_disk
\* equals the file's modification time and modified equals written_to_disk.
C4_Original ==
  (IsFlush(last) \/ IsLoad(last)) =>
    /\ Status(last.who) = "NoSync"
    /\ st[last.who].written_to_disk = file.mtime
    /\ st[last.who].modified = st[last.who].written_to_disk

\* C5: a successful flush followed by a load of the file by a fresh
\* instance yields the flushed map.
C5_Original ==
  [][(IsFlush(last) /\ New("A")) => st'["A"].entries = st["A"].entries]_vars

\* C6: a file as the legacy writer emits it loads successfully, and a flush
\* after a legacy load leaves a file of the current format version, which a
\* fresh instance loads with the same entries.
C6_Original ==
  /\ (/\ last.op \in {"new", "read_fs"}
      /\ file.exists
      /\ file.content.head = LegacyHeader) => last.res = "none"
  /\ IsFlush(last) =>
       /\ LoadFsData(file).err = "none"
       /\ LoadFsData(file).entries = st[last.who].entries

\* C7: loading a structured file whose format version is not the current
\* one returns the version-mismatch error and leaves the map, modified and
\* written_to_disk as they were.
C7_VersionGate ==
  [][(ReadFs("A") /\ OtherVersionFile(file)) =>
       (last'.res = "version_mismatch" /\ st' = st)]_vars

C7_Witness ==
  /\ last.op = "read_fs"
  /\ last.res = "version_mismatch"
  /\ OtherVersionFile(file)
  /\ st[last.who].entries # EmptyMap

\* C8: flush fails exactly when the modification time re-read after the
\* write equals the previous written_to_disk; when it differs, flush
\* succeeds and sets modified and written_to_disk to it.
C8_Original ==
  [][WriteFs("A") =>
       /\ (last'.res = "timestamp") <=> (fsnow = st["A"].written_to_disk)
       /\ (fsnow # st["A"].written_to_disk) =>
            /\ last'.res = "none"
            /\ st'["A"].modified = fsnow
            /\ st'["A"].written_to_disk = fsnow]_vars

\* C9: a flush that returns an error leaves the file's content as it was
\* before the call.
C9_Original ==
  [][(WriteFs("A") /\ last'.res # "none") =>
       (file'.exists = file.exists /\ file'.content = file.content)]_vars

\* C10: merge_from keeps a key only the store holds, takes the other's
\* value for a key only the other holds, and for a key both hold calls
\* combine once, the local value first, and stores its result; the keys of
\* the result are the union of both key sets.
CallsFor(calls, key) == {i \in 1..Len(calls) : calls[i][1] = key}

C10_MergeFrom ==
  res.done =>
    LET local == arg.entries
        other == arg.other
        out == res.out.entries
        calls == res.out.calls
    IN /\ DOMAIN out = DOMAIN local \cup DOMAIN other
       /\ \A k \in DOMAIN other \ DOMAIN local :
            out[k] = other[k] /\ CallsFor(calls, k) = {}
       /\ \A k \in DOMAIN local \ DOMAIN other :
            out[k] = local[k] /\ CallsFor(calls, k) = {}
       /\ \A k \in DOMAIN local \cap DOMAIN other :
            /\ out[k] = Combine(arg.kind, local[k], other[k])
            /\ Cardinality(CallsFor(calls, k)) = 1
            /\ \A i \in CallsFor(calls, k) : calls[i] = <<k, local[k], other[k]>>

C10_Witness ==
  /\ res.done
  /\ arg.kind = "first"
  /\ DOMAIN arg.entries \ DOMAIN arg.other # {}
  /\ DOMAIN arg.other \ DOMAIN arg.entries # {}
  /\ \E k \in DOMAIN arg.entries \cap DOMAIN arg.other :
       arg.entries[k] # arg.other[k] /\ res.out.entries[k] = arg.entries[k]

\* The algebraic laws of a combine, over the values the stores hold.
Commutative(kind, V) ==
  \A a \in V, b \in V : Combine(kind, a, b) = Combine(kind, b, a)

Idempotent(kind, V) == \A a \in V : Combine(kind, a, a) = a

Associative(kind, V) ==
  \A a \in V, b \in V, c \in V :
    Combine(kind, Combine(kind, a, b), c) = Combine(kind, a, Combine(kind, b, c))

\* C11: for two stores obtained by independently mutating copies of the
\* same initial map, the map of A after A.merge_from(B) equals the map of B
\* after B.merge_from(A), whenever combine is commutative.
C11_MergeCommutes ==
  (res.done /\ Commutative(arg.kind, MergeValues)) =>
    st["A"].entries = st["B"].entries

C11_Witness ==
  /\ res.done
  /\ arg.kind = "add"
  /\ DOMAIN res.a # DOMAIN res.b
  /\ \E k \in DOMAIN res.a \cap DOMAIN res.b : res.a[k] # res.b[k]
  /\ st["A"].entries = st["B"].entries

\* C12 as stated: merge_from applied twice with the same input yields the
\* same map as applying it once, whenever combine is idempotent.
C12_Original ==
  (res.done /\ res.times = 2 /\ Idempotent(arg.kind, TwiceValues)) =>
    st["A"].entries = res.before

\* C12 amended: merge_from applied twice with the same input yields the
\* same map as applying it once, whenever combine is idempotent and
\* associative.
C12_MergeTwice ==
  (/\ res.done
   /\ res.times = 2
   /\ Idempotent(arg.kind, TwiceValues)
   /\ Associative(arg.kind, TwiceValues)) =>
    st["A"].entries = res.before

C12_Witness ==
  /\ res.done
  /\ res.times = 2
  /\ arg.kind = "max"
  /\ \E k \in DOMAIN arg.other \cap DOMAIN res.before :
       arg.other[k] > res.before[k] \/ arg.other[k] < res.before[k]
  /\ st["A"].entries = res.before

\* C13: remove of an absent key returns the key-not-found error and leaves
\* the map and modified unchanged, so the status stays as it was; remove of
\* a present key deletes exactly that entry, leaves every other entry
\* unchanged and sets modified to the clock's value, never an earlier one.
C13_Remove ==
  [][\A id \in CopyKeys :
       Remove("A", id) =>
         IF id \notin DOMAIN st["A"].entries
         THEN /\ last'.res = "key_not_found"
              /\ st'["A"] = st["A"]
              /\ Status("A")' = Status("A")
         ELSE /\ last'.res = "none"
              /\ DOMAIN st'["A"].entries = DOMAIN st["A"].entries \ {id}
              /\ \A k \in DOMAIN st'["A"].entries :
                   st'["A"].entries[k] = st["A"].entries[k]
              /\ st'["A"].modified = now
              /\ st'["A"].modified >= st["A"].modified
              /\ st'["A"].written_to_disk = st["A"].written_to_disk]_vars

C13_Witness ==
  /\ last.op = "remove"
  /\ last.res = "none"
  /\ st["A"].entries # EmptyMap
  /\ st["A"].modified > st["A"].written_to_disk
  /\ last.pre = "NoSync"

\* The merge of the documents of a sequence of store calls, from the left.
RECURSIVE MergedFromLeft(_)
MergedFromLeft(docs) ==
  IF Len(docs) = 1 THEN docs[1]
  ELSE Merge(MergedFromLeft(SubSeq(docs, 1, Len(docs) - 1)), docs[Len(docs)])

\* The last call whose document holds the top-level key k.
LastWith(docs, k) ==
  CHOOSE i \in 1..Len(docs) :
    /\ k \in DOMAIN docs[i].fields
    /\ \A j \in (i + 1)..Len(docs) : k \notin DOMAIN docs[j].fields

\* C14: after the store calls d1, ..., dn for one id, load_raw returns
\* merge(...merge(d1, d2)..., dn), d1 itself when n = 1; a key of any of the
\* documents is a key of the result, and a key whose last document gives it
\* a leaf has that leaf.
C14_StoredSequentially ==
  (res.done /\ arg # <<>>) =>
    /\ res.out.err = "none"
    /\ res.out.content = MergedFromLeft(arg)
    /\ Len(arg) = 1 => res.out.content = arg[1]
    /\ \A i \in 1..Len(arg) :
         \A k \in DOMAIN arg[i].fields :
           /\ k \in DOMAIN res.out.content.fields
           /\ arg[LastWith(arg, k)].fields[k].leaf =>
                res.out.content.fields[k] = arg[LastWith(arg, k)].fields[k]
    /\ arg = <<Obj(1 :> Leaf(1)), Obj(2 :> Leaf(2))>> =>
         res.out.content = Obj((1 :> Leaf(1)) @@ (2 :> Leaf(2)))
    /\ arg = <<Obj(1 :> Leaf(1)), Obj(1 :> Leaf(2))>> =>
         res.out.content = Obj(1 :> Leaf(2))

C14_Witness ==
  /\ res.done
  /\ res.out.err = "none"
  /\ Len(arg) = MaxStoreCalls
  /\ \E k \in DOMAIN arg[1].fields \cap DOMAIN arg[2].fields :
       /\ arg[1].fields[k] # arg[2].fields[k]
       /\ res.out.content.fields[k] = arg[2].fields[k]
  /\ \E k \in DOMAIN arg[1].fields \ DOMAIN arg[2].fields :
       res.out.content.fields[k] = arg[1].fields[k]

\* C15: when several store calls for one id run together, no update is
\* lost: once all have returned, the document holds every key written by
\* every call, and when the calls write different keys it is the union of
\* their documents, in every interleaving.
AllReturned == \A c \in Callers : st[c].pc = "done"

KeysOf(c) == DOMAIN st[c].properties.fields

C15_NoLostUpdate ==
  AllReturned =>
    /\ file.exists
    /\ \A c \in Callers : KeysOf(c) \subseteq DOMAIN file.doc.fields
    /\ (\A c \in Callers, d \in Callers : c # d => KeysOf(c) \cap KeysOf(d) = {})
         => /\ DOMAIN file.doc.fields = UNION {KeysOf(c) : c \in Callers}
            /\ \A c \in Callers : \A k \in KeysOf(c) :
                 file.doc.fields[k] = st[c].properties.fields[k]

C15_Witness ==
  /\ AllReturned
  /\ \A c \in Callers, d \in Callers : c # d => KeysOf(c) \cap KeysOf(d) = {}
  /\ \A c \in Callers : \A k \in KeysOf(c) :
       file.doc.fields[k] = st[c].properties.fields[k]

\* C16: for every content whose declared length is its actual length, of
\* any length a u64 holds, the computation completes and returns an id
\* whose size is the number of bytes read, the content's length.
Panicked(f) ==
  f.pc \in {"panic_read", "panic_overflow", "panic_convert", "panic_assert"}

C16_Original ==
  (/\ arg.data_size = arg.content.len
   /\ arg.fails_at = -1
   /\ arg.content.len <= U64Max) =>
    /\ ~Panicked(res)
    /\ res.done => /\ res.pc = "ok"
                    /\ res.out.data_size = arg.content.len
                    /\ res.bytes_read = arg.content.len

\* C17: in every reachable state of a store, after any sequence of
\* new/set/remove/merge_from/read_fs/write_fs, written_to_disk holds a
\* value read from the file's modification time, never one read from the
\* wall clock.
C17_Original ==
  \A s \in Stores : hist[s].made => hist[s].flushed_from = "fs"

\* C18: every fallible operation ends by returning, with a value or an
\* error, and never by aborting the process, except by the assertion on the
\* fingerprint's declared length; so a legacy line with no separator, a
\* legacy header whose version is not an integer and a fingerprint source
\* that fails to read each give an error.
C18_Original ==
  res.done => res.pc \in {"ok", "err", "panic_assert"}

\* C19: write_file followed by read_file_from_disk on the same storage
\* returns the map written; a value that holds the separator is read back
\* whole.
C19_Original ==
  (res.done /\ arg.written /\ last.res = "none") =>
    (res.pc = "ok" /\ res.out = arg.value_by_id)

\* C20: when a legacy instance is dropped its file is deleted: after the
\* drop the path does not exist, whatever was written through the instance
\* and whether or not another instance refers to the path.
C20_DropDeletes == last.op = "drop" => ~file.exists

C20_Witness ==
  /\ last.op = "drop"
  /\ last.pre = "file"
  /\ ~file.exists
  /\ \E o \in Stores : o # last.who /\ st[o].alive /\ st[o].timestamp > 0

\* C21: new always returns a storage. When the path holds a file that
\* loads, the storage's map is that file's entries and its status right
\* after new is NoSync; when the path does not exist or the load fails, the
\* map is empty; in every case modified = written_to_disk right after new.
C21_New ==
  last.op = "new" =>
    /\ hist[last.who].made
    /\ st[last.who].modified = st[last.who].written_to_disk
    /\ IF last.res = "none"
       THEN /\ st[last.who].entries = LoadFsData(file).entries
            /\ Status(last.who) = "NoSync"
       ELSE st[last.who].entries = EmptyMap

C21_Witness ==
  /\ last.op = "new"
  /\ last.res = "none"
  /\ st[last.who].entries # EmptyMap
  /\ st[last.who].modified < now
  /\ st[last.who].modified = file.mtime

\* C22: after a read_fs that succeeds the storage's map is exactly the
\* entries of the backing file (an entry set locally and never flushed is
\* gone, and no value is combined with the local one), and modified and
\* written_to_disk are both the file's modification time.
C22_ReadFs ==
  IsLoad(last) =>
    /\ st[last.who].entries = LoadFsData(file).entries
    /\ st[last.who].modified = file.mtime
    /\ st[last.who].written_to_disk = file.mtime

C22_Witness ==
  /\ IsLoad(last)
  /\ \E k \in DOMAIN arg.local : k \notin DOMAIN st["A"].entries
  /\ \E k \in DOMAIN arg.local \cap DOMAIN st["A"].entries :
       arg.local[k] > st["A"].entries[k]
  /\ st["A"].modified = file.mtime
  /\ file.mtime < now

\* C23: with a clock that never goes back and stamps every file, every
\* reachable state of a storage has modified >= written_to_disk: new, a
\* read_fs that succeeds and a write_fs that succeeds leave the two equal,
\* and set, remove and merge_from leave written_to_disk alone and never
\* move modified back; so a memory that is not ahead has modified =
\* written_to_disk.
C23_ModifiedNotBehind ==
  /\ [](\A s \in Stores :
          /\ st[s].modified >= st[s].written_to_disk
          /\ ~MemAhead(s) => st[s].modified = st[s].written_to_disk)
  /\ [][\A s \in Stores :
          /\ (last'.who = s /\ (last'.op = "new" \/ IsLoad(last') \/ IsFlush(last')))
               => st'[s].modified = st'[s].written_to_disk
          /\ (last'.who = s /\ last'.op \in {"set", "remove", "merge_from"})
               => /\ st'[s].modified >= st[s].modified
                  /\ st'[s].written_to_disk = st[s].written_to_disk]_vars

C23_Witness ==
  /\ last.op \in {"set", "merge_from"}
  /\ MemAhead(last.who)
  /\ st[last.who].written_to_disk > 0
  /\ hist[last.who].flushed_from = "fs"
  /\ st[last.who].modified = now

\* C24: the legacy read_file hands each modification of the file to the
\* handler at most once: the handler is called only when the file's
\* modification time is strictly newer than the instance's timestamp, and
\* after a read_file that called the handler, another read_file with no
\* change of the file in between does not call it again.
C24_Original ==
  (last.op = "read_file" /\ last.res = "handled") =>
    /\ file.mtime > st[last.who].timestamp
    /\ res.times <= 1

====
